---- MODULE Spec2Model ----
(***************************************************************************)
(* DocsPort code execution (backend/execution.py): SecureCodeExecutor.     *)
(* A request is guarded by _validate_code, then run in a child interpreter *)
(* fed from a scratch file, with a wall-clock timeout, and recorded in the *)
(* execution history.  Texts are sequences of one-character strings.       *)
(* Further components, each with a specification of its own: the HTTP      *)
(* route, get_execution_history, InteractiveCodeExecutor,                  *)
(* PythonCodeAnalyzer (backend/analysis.py), DocsPortApp._safe_path        *)
(* (backend/app.py) and CodeDependencyAnalyzer._find_cycles                *)
(* (backend/visualization.py).                                             *)
(***************************************************************************)
EXTENDS Integers, Sequences, FiniteSets, TLC

VARIABLES
  pc,        \* position of the current execute_code call
  call,      \* its arguments: [code, execution_type, timeout]
  outer,     \* the CodeExecutionResult built by execute_code (line 61)
  inner,     \* the CodeExecutionResult built by _execute_python_code (line 143)
  exc,       \* the exception in flight, NoExc when none
  returned,  \* the dictionary the last call returned, NoDict before any
  files,     \* scratch directory: set of [name, content]
  child,     \* the child process of the current call
  start_time,\* time.time() taken before Popen
  now,       \* wall clock, in seconds
  nextId,    \* source of fresh uuid4 values
  ncalls,    \* calls made so far
  nspawn,    \* processes spawned by the current call
  nwrite,    \* scratch files created by the current call
  history,   \* rows of the execution_history table, oldest first
  http,      \* the POST /api/execute request last taken up by the event loop
  queued,    \* requests accepted by the server, waiting for the event loop
  other      \* a call of another executor that shares the scratch directory

VARIABLES
  listed,    \* what the last get_execution_history call returned
  sessions,  \* InteractiveCodeExecutor.sessions: session id -> session
  nextSid,   \* source of fresh uuid4 values for session ids
  sret,      \* the last call on InteractiveCodeExecutor and what it returned
  fs,        \* the project's files: path -> [exists, content, mtime]
  table,     \* rows of the code_analysis table, in insertion order
  aret,      \* the last analyze_file call and what it returned
  aclock,    \* the analyzer's wall clock, in seconds
  pret,      \* the last _safe_path call and its outcome
  graph,     \* the dependency graph handed to _find_cycles
  cret       \* what _find_cycles returned for it

\* the state of SecureCodeExecutor, its route and its neighbour
execVars == << pc, call, outer, inner, exc, returned, files, child, start_time,
               now, nextId, ncalls, nspawn, nwrite, history, http, queued, other >>

\* the state of the other components
ext == << listed, sessions, nextSid, sret, fs, table, aret, aclock, pret, graph, cret >>

vars == << execVars, ext >>

----------------------------------------------------------------------------
(* Bounds of the model *)
MaxCalls == 1
MaxTimeout == 1
MaxWs == 2
MaxQueued == 1
MaxOtherCalls == 1
MaxLimit == 1
MaxSessions == 2
MaxUses == 1
MaxClock == 2
MaxSegs == 3
MaxNodes == 3

\* timeout: int = Field(default=30, ge=1, le=60)
MinTimeout == 1
MaxAllowedTimeout == 60

----------------------------------------------------------------------------
(* Text helpers *)

UpperChars == <<"A","B","C","D","E","F","G","H","I","J","K","L","M",
                "N","O","P","Q","R","S","T","U","V","W","X","Y","Z">>
LowerChars == <<"a","b","c","d","e","f","g","h","i","j","k","l","m",
                "n","o","p","q","r","s","t","u","v","w","x","y","z">>

\* str.lower() on one character
LowerChar(c) ==
  IF \E i \in 1..Len(UpperChars) : UpperChars[i] = c
    THEN LowerChars[CHOOSE i \in 1..Len(UpperChars) : UpperChars[i] = c]
    ELSE c

\* str.lower()
Lower(s) == [i \in 1..Len(s) |-> LowerChar(s[i])]

\* Python's  sub in s
Contains(sub, s) ==
  \E i \in 0..(Len(s) - Len(sub)) : SubSeq(s, i + 1, i + Len(sub)) = sub

\* Python's  s.startswith(prefix)
StartsWith(s, prefix) ==
  Len(s) >= Len(prefix) /\ SubSeq(s, 1, Len(prefix)) = prefix

\* str(n) for the small naturals the model uses
Digits == <<"0","1","2","3","4","5","6","7","8","9">>
RECURSIVE Str(_)
Str(n) == IF n < 10 THEN <<Digits[n + 1]>> ELSE Str(n \div 10) \o <<Digits[(n % 10) + 1]>>

----------------------------------------------------------------------------
(* _validate_code *)

dangerous_operations ==
  << <<"i","m","p","o","r","t"," ","o","s">>,
     <<"i","m","p","o","r","t"," ","s","y","s">>,
     <<"i","m","p","o","r","t"," ","s","u","b","p","r","o","c","e","s","s">>,
     <<"i","m","p","o","r","t"," ","s","h","u","t","i","l">>,
     <<"i","m","p","o","r","t"," ","s","o","c","k","e","t">>,
     <<"i","m","p","o","r","t"," ","u","r","l","l","i","b">>,
     <<"i","m","p","o","r","t"," ","r","e","q","u","e","s","t","s">>,
     <<"f","r","o","m"," ","o","s"," ","i","m","p","o","r","t">>,
     <<"f","r","o","m"," ","s","y","s"," ","i","m","p","o","r","t">>,
     <<"f","r","o","m"," ","s","u","b","p","r","o","c","e","s","s"," ","i","m","p","o","r","t">>,
     <<"f","r","o","m"," ","s","h","u","t","i","l"," ","i","m","p","o","r","t">>,
     <<"f","r","o","m"," ","s","o","c","k","e","t"," ","i","m","p","o","r","t">>,
     <<"f","r","o","m"," ","u","r","l","l","i","b"," ","i","m","p","o","r","t">>,
     <<"f","r","o","m"," ","r","e","q","u","e","s","t","s"," ","i","m","p","o","r","t">>,
     <<"e","x","e","c","(">>,
     <<"e","v","a","l","(">>,
     <<"c","o","m","p","i","l","e","(">>,
     <<"_","_","i","m","p","o","r","t","_","_","(">>,
     <<"o","p","e","n","(">>,
     <<"f","i","l","e","(">>,
     <<"i","n","p","u","t","(">>,
     <<"r","a","w","_","i","n","p","u","t","(">>,
     <<"e","x","i","t","(">>,
     <<"q","u","i","t","(">>,
     <<"g","l","o","b","a","l","s","(">>,
     <<"l","o","c","a","l","s","(">>,
     <<"v","a","r","s","(">>,
     <<"d","i","r","(">>,
     <<"g","e","t","a","t","t","r","(">>,
     <<"s","e","t","a","t","t","r","(">>,
     <<"d","e","l","a","t","t","r","(">>,
     <<"h","a","s","a","t","t","r","(">>,
     <<"r","e","l","o","a","d","(">>,
     <<"i","m","p","o","r","t","l","i","b">>,
     <<"p","i","c","k","l","e">>,
     <<"c","P","i","c","k","l","e">>,
     <<"m","a","r","s","h","a","l">>,
     <<"t","e","m","p","f","i","l","e">>,
     <<"p","a","t","h","l","i","b">>,
     <<"g","l","o","b">>,
     <<"f","n","m","a","t","c","h">> >>

\* for operation in dangerous_operations: if operation in code_lower: return False
_validate_code(code) ==
  LET code_lower == Lower(code)
  IN  ~ \E k \in 1..Len(dangerous_operations) :
          Contains(dangerous_operations[k], code_lower)

----------------------------------------------------------------------------
(* Inputs of execute_code *)

Cat3(a, b, c) == a \o b \o c

KwImport == <<"i","m","p","o","r","t">>
ModOs == <<"o","s">>
ModOsprey == <<"o","s","p","r","e","y">>

\* runs of n spaces
RECURSIVE Spaces(_)
Spaces(n) == IF n = 0 THEN <<>> ELSE <<" ">> \o Spaces(n - 1)

\* the horizontal whitespace put between "import" and the module name
WsRuns == { Spaces(n) : n \in 1..MaxWs } \cup { <<"\t">> }

ImportSnippets ==
  { Cat3(KwImport, ws, ModOs) : ws \in WsRuns } \cup { Cat3(KwImport, <<" ">>, ModOsprey) }

S_safe == <<"p","r","i","n","t","(","1",")">>
S_eval_upper == <<"E","V","A","L","(","1",")">>
S_breakpoint == <<"b","r","e","a","k","p","o","i","n","t","(",")">>
S_builtins == <<"p","r","i","n","t","(","_","_","b","u","i","l","t","i","n","s","_","_",")">>
S_subclasses == <<"(",")",".","_","_","c","l","a","s","s","_","_",".","_","_","s","u","b","c","l","a","s","s","e","s","_","_","(",")">>

Snippets ==
  ImportSnippets \cup {S_safe, S_eval_upper, S_breakpoint, S_builtins, S_subclasses}

ExecutionTypes == {"python", "bash"}
Timeouts == 1..MaxTimeout

----------------------------------------------------------------------------
(* The child interpreter, seen from the parent *)

\* what a child may write to a pipe: bytes, "0xFF" being one that is not
\* valid in the pipe's text encoding
ChildStdouts == { <<"a">>, <<"a", "\r", "\n", "b", "\r">>, <<"0xFF">> }
ChildStderrs == { <<>>, <<"e", "\r">> }

\* Popen.returncode of a child that ended: exit status, or -N when ended by signal N
ExitCodes == {0, 1, -1}

\* text=True: the pipe is decoded strictly
Decodable(bytes) == \A i \in 1..Len(bytes) : bytes[i] # "0xFF"

\* text=True: universal newlines, "\r\n" and then "\r" become "\n"
RECURSIVE TranslateNewlines(_)
TranslateNewlines(s) ==
  IF s = <<>> THEN <<>>
  ELSE IF Len(s) >= 2 /\ s[1] = "\r" /\ s[2] = "\n"
         THEN <<"\n">> \o TranslateNewlines(SubSeq(s, 3, Len(s)))
  ELSE IF s[1] = "\r" THEN <<"\n">> \o TranslateNewlines(Tail(s))
  ELSE <<s[1]>> \o TranslateNewlines(Tail(s))

NoChild == [ state |-> "none", script |-> 0, rc |-> 0, out |-> <<>>, err |-> <<>> ]

----------------------------------------------------------------------------
(* CodeExecutionResult *)

\* CodeExecutionResult.__init__
NewResult(id, t) ==
  [ execution_id |-> id, output |-> <<>>, error_output |-> <<>>,
    return_code |-> 0, execution_time |-> 0, timeout_occurred |-> FALSE,
    memory_usage |-> 0, timestamp |-> t ]

\* to_dict deriving success with "or" in place of "and"
to_dict_or(r) ==
  [ execution_id |-> r.execution_id, output |-> r.output,
    error_output |-> r.error_output, return_code |-> r.return_code,
    execution_time |-> r.execution_time, timeout_occurred |-> r.timeout_occurred,
    memory_usage |-> r.memory_usage, timestamp |-> r.timestamp,
    success |-> (r.return_code = 0 \/ ~ r.timeout_occurred) ]

\* CodeExecutionResult.to_dict
to_dict(r) ==
  [ execution_id |-> r.execution_id, output |-> r.output,
    error_output |-> r.error_output, return_code |-> r.return_code,
    execution_time |-> r.execution_time, timeout_occurred |-> r.timeout_occurred,
    memory_usage |-> r.memory_usage, timestamp |-> r.timestamp,
    success |-> (r.return_code = 0 /\ ~ r.timeout_occurred) ]

NoResult == NewResult(0, 0)
NoDict == to_dict(NoResult)
NoExc == [ type |-> "", msg |-> <<>> ]
NoCall == [ code |-> <<>>, execution_type |-> "", timeout |-> 0 ]

ForbiddenMsg == <<"Code contains forbidden operations">>
UnsupportedMsg(t) == <<"Unsupported execution type: ", t>>
TimeoutMsg(t) == <<"Execution timed out after ">> \o Str(t) \o <<" seconds">>

\* the exceptions the run can meet, with their str(e)
OpenError == [ type |-> "PermissionError",
               msg |-> <<"[Errno 13] Permission denied: scratch file">> ]
SpawnError == [ type |-> "FileNotFoundError",
                msg |-> <<"[Errno 2] No such file or directory: interpreter">> ]
DecodeError == [ type |-> "UnicodeDecodeError",
                 msg |-> <<"'utf-8' codec can't decode byte 0xff">> ]
UnlinkError == [ type |-> "PermissionError",
                 msg |-> <<"[Errno 13] Permission denied: unlink">> ]
WriteError == [ type |-> "OSError",
                msg |-> <<"[Errno 28] No space left on device">> ]

\* the classes  except Exception  catches
ExceptionClasses ==
  {"OSError", "PermissionError", "FileNotFoundError", "UnicodeDecodeError"}

\* the classes  except OSError  would catch
CatchesOSErrorOnly(e) == e.type \in {"OSError", "PermissionError", "FileNotFoundError"}

\* except Exception as e
Catches(e) == e.type \in ExceptionClasses

\* one scratch file name for every call
FixedName(r) == 0

\* temp_dir / f"execution_{result.execution_id}.py": one name per execution_id
temp_file(r) == r.execution_id

\* no POST /api/execute taken up yet
NoHttp == [ timeout |-> 0, verdict |-> "none" ]

\* the other executor is between calls
NoOther == [ pc |-> "idle", id |-> 0, ran |-> <<>>, calls |-> 0 ]

\* no call made on InteractiveCodeExecutor yet
NoSret == [ op |-> "", id |-> 0, error |-> "", message |-> "",
            variables |-> {}, return_code |-> 0 ]

----------------------------------------------------------------------------
(* PythonCodeAnalyzer: values *)

\* the paths handed to analyze_file
AnalysisPaths == { "a.py", "b.py" }

\* the file contents: a class with a method, a function, text that is not Python
Sources == { "class Foo: def bar", "def f", "def (" }

\* Python's None, and a key the dictionary does not have
None == "None"
Absent == "<absent>"

\* a path with no file behind it
NoFile == [ exists |-> FALSE, content |-> "", mtime |-> 0 ]

\* ast.parse(content) raises SyntaxError
ParseFails(content) == content = "def ("

\* ASTAnalyzer(content).visit(tree); analyzer.elements: the CodeElement list
\* (visit_ClassDef, visit_FunctionDef)
Parse(content) ==
  IF content = "class Foo: def bar"
    THEN << [ name |-> "Foo", element_type |-> "class",
              line_start |-> 1, line_end |-> 3, parent |-> None ],
            [ name |-> "bar", element_type |-> "method",
              line_start |-> 2, line_end |-> 3, parent |-> "Foo" ] >>
  ELSE IF content = "def f"
    THEN << [ name |-> "f", element_type |-> "function",
              line_start |-> 1, line_end |-> 2, parent |-> None ] >>
  ELSE << >>

\* CodeElement.to_dict
ElementToDict(e) ==
  [ name |-> e.name, type |-> e.element_type, line_start |-> e.line_start,
    line_end |-> e.line_end, parent |-> e.parent ]

\* the row _save_analysis inserts for an element
ToRow(file_path, e, t) ==
  [ file_path |-> file_path, analysis_type |-> e.element_type, name |-> e.name,
    line_start |-> e.line_start, line_end |-> e.line_end, created_at |-> t ]

\* the dictionary _get_cached_analysis builds from a row
RowToDict(r) ==
  [ name |-> r.name, type |-> r.analysis_type, line_start |-> r.line_start,
    line_end |-> r.line_end, parent |-> Absent ]

RECURSIVE SumLines(_)
SumLines(s) ==
  IF s = << >> THEN 0
  ELSE (Head(s).line_end - Head(s).line_start + 1) + SumLines(Tail(s))

\* _calculate_stats, over CodeElement objects
_calculate_stats(elements) ==
  [ classes |-> Cardinality({ i \in DOMAIN elements : elements[i].element_type = "class" }),
    functions |-> Cardinality({ i \in DOMAIN elements : elements[i].element_type = "function" }),
    methods |-> Cardinality({ i \in DOMAIN elements : elements[i].element_type = "method" }),
    lines |-> SumLines(elements) ]

\* _calculate_stats_from_elements, over dictionaries
_calculate_stats_from_elements(elements) ==
  [ classes |-> Cardinality({ i \in DOMAIN elements : elements[i].type = "class" }),
    functions |-> Cardinality({ i \in DOMAIN elements : elements[i].type = "function" }),
    methods |-> Cardinality({ i \in DOMAIN elements : elements[i].type = "method" }),
    lines |-> SumLines(elements) ]

NoStats == [ classes |-> 0, functions |-> 0, methods |-> 0, lines |-> 0 ]

\* no analyze_file call made yet
NoAret == [ file_path |-> "", force_refresh |-> FALSE, kind |-> "none",
            elements |-> << >>, stats |-> NoStats, error |-> "" ]

----------------------------------------------------------------------------
(* DocsPortApp._safe_path: values *)

\* directory and file names
NameSrv == <<"s","r","v">>
NameApp == <<"a","p","p">>
NameAppEvil == <<"a","p","p","_","e","v","i","l">>
NameX == <<"x">>
DotDot == <<".",".">>

\* Path.cwd().resolve(): the project root /srv/app, as its components
project_root == << NameSrv, NameApp >>

\* the components a requested path is made of
Segments == { DotDot, NameSrv, NameApp, NameAppEvil, NameX }

\* no _safe_path call made yet
NoPret == [ file_path |-> [ absolute |-> FALSE, segs |-> << >> ],
            kind |-> "none", resolved |-> << >> ]

----------------------------------------------------------------------------
(* CodeDependencyAnalyzer._find_cycles: values *)

\* the nodes of a dependency graph, in the order of the dict's keys
Nodes == 1..MaxNodes

\* no graph built yet: every node without dependencies
NoGraph == [ n \in Nodes |-> << >> ]

\* _find_cycles not called on the graph yet
NoCret == [ done |-> FALSE, cycles |-> << >> ]

----------------------------------------------------------------------------
(* State after SecureCodeExecutor.__init__ *)

Init ==
  /\ pc = "idle"
  /\ call = NoCall
  /\ outer = NoResult
  /\ inner = NoResult
  /\ exc = NoExc
  /\ returned = NoDict
  /\ files = {}
  /\ child = NoChild
  /\ start_time = 0
  /\ now = 0
  /\ nextId = 1
  /\ ncalls = 0
  /\ nspawn = 0
  /\ nwrite = 0
  /\ history = <<>>
  /\ http = NoHttp
  /\ queued = 0
  /\ other = NoOther
  /\ listed = <<>>
  /\ sessions = << >>
  /\ nextSid = 1
  /\ sret = NoSret
  /\ fs = [ p \in AnalysisPaths |-> NoFile ]
  /\ table = <<>>
  /\ aret = NoAret
  /\ aclock = 0
  /\ pret = NoPret
  /\ graph = NoGraph
  /\ cret = NoCret

----------------------------------------------------------------------------
(* execute_code, step by step *)

\* a guard denial that names the operation that matched
DenialNamingMatch(r, code) ==
  [r EXCEPT !.error_output = <<"Forbidden: ">> \o code, !.return_code = 1]

\* result.error_output = "Code contains forbidden operations"; result.return_code = 1
DenialResult(r, code) ==
  [r EXCEPT !.error_output = ForbiddenMsg, !.return_code = 1]

\* the unsupported-type branch without its return_code
UnsupportedResultOk(r, t) ==
  [r EXCEPT !.error_output = UnsupportedMsg(t)]

\* result.error_output = f"Unsupported execution type: {execution_type}"; return_code = 1
UnsupportedResult(r, t) ==
  [r EXCEPT !.error_output = UnsupportedMsg(t), !.return_code = 1]

\* except Exception as e: result.error_output = str(e); result.return_code = 1
ErrorResult(r, e) ==
  [r EXCEPT !.error_output = e.msg, !.return_code = 1]

\* entry of execute_code: result = CodeExecutionResult()
ExecuteCode(code, execution_type, timeout) ==
  /\ pc \in {"idle", "done"}
  /\ ncalls < MaxCalls
  /\ call' = [code |-> code, execution_type |-> execution_type, timeout |-> timeout]
  /\ outer' = NewResult(nextId, now)
  /\ inner' = NoResult
  /\ nextId' = nextId + 1
  /\ exc' = NoExc
  /\ returned' = NoDict
  /\ child' = NoChild
  /\ ncalls' = ncalls + 1
  /\ nspawn' = 0
  /\ nwrite' = 0
  /\ start_time' = now
  /\ pc' = "validate"
  /\ UNCHANGED << ext, other, files, now, history >>

\* if not self._validate_code(code): ... return result.to_dict()
ValidateDenied ==
  /\ pc = "validate"
  /\ ~ _validate_code(call.code)
  /\ outer' = DenialResult(outer, call.code)
  /\ returned' = to_dict(outer')
  /\ pc' = "done"
  /\ UNCHANGED << ext, http, queued, other, call, inner, exc, files, child, start_time, now, nextId,
                  ncalls, nspawn, nwrite, history >>

\* approved, execution_type == "python": enter _execute_python_code
ValidatePython ==
  /\ pc = "validate"
  /\ _validate_code(call.code)
  /\ call.execution_type = "python"
  /\ inner' = NewResult(nextId, now)
  /\ nextId' = nextId + 1
  /\ pc' = "write"
  /\ UNCHANGED << ext, http, queued, other, call, outer, exc, returned, files, child, start_time, now,
                  ncalls, nspawn, nwrite, history >>

\* approved, any other execution_type
ValidateUnsupported ==
  /\ pc = "validate"
  /\ _validate_code(call.code)
  /\ call.execution_type # "python"
  /\ outer' = UnsupportedResult(outer, call.execution_type)
  /\ pc' = "save"
  /\ UNCHANGED << ext, http, queued, other, call, inner, exc, returned, files, child, start_time, now,
                  nextId, ncalls, nspawn, nwrite, history >>

\* with open(temp_file, 'w', encoding='utf-8') as f: f.write(code)
WriteScratch ==
  /\ pc = "write"
  /\ files' = {f \in files : f.name # temp_file(inner)}
                \cup { [name |-> temp_file(inner), content |-> call.code] }
  /\ nwrite' = nwrite + 1
  /\ pc' = "spawn"
  /\ UNCHANGED << ext, http, queued, other, call, outer, inner, exc, returned, child, start_time, now,
                  nextId, ncalls, nspawn, history >>

\* open() has created the file and f.write(code) or the closing flush raises
WriteScratchPartial ==
  /\ pc = "write"
  /\ files' = {f \in files : f.name # temp_file(inner)}
                \cup { [name |-> temp_file(inner), content |-> <<>>] }
  /\ nwrite' = nwrite + 1
  /\ exc' = WriteError
  /\ pc' = "finally"
  /\ UNCHANGED << ext, http, queued, other, call, outer, inner, returned, child,
                  start_time, now, nextId, ncalls, nspawn, history >>

\* open() raises
WriteScratchFails ==
  /\ pc = "write"
  /\ exc' = OpenError
  /\ pc' = "finally"
  /\ UNCHANGED << ext, http, queued, other, call, outer, inner, returned, files, child, start_time, now,
                  nextId, ncalls, nspawn, nwrite, history >>

\* start_time = time.time(); process = subprocess.Popen([sys.executable, str(temp_file)], ...)
Spawn ==
  /\ pc = "spawn"
  /\ start_time' = now
  /\ child' = [ state |-> "running", script |-> temp_file(inner),
                rc |-> 0, out |-> <<>>, err |-> <<>> ]
  /\ nspawn' = nspawn + 1
  /\ pc' = "wait"
  /\ UNCHANGED << ext, http, queued, other, call, outer, inner, exc, returned, files, now, nextId,
                  ncalls, nwrite, history >>

\* Popen raises (interpreter missing, no more processes)
SpawnFails ==
  /\ pc = "spawn"
  /\ start_time' = now
  /\ exc' = SpawnError
  /\ pc' = "finally"
  /\ UNCHANGED << ext, http, queued, other, call, outer, inner, returned, files, child, now, nextId,
                  ncalls, nspawn, nwrite, history >>

\* communicate() called without a timeout never raises TimeoutExpired
NeverTimesOut(elapsed, timeout) == FALSE

\* process.communicate(timeout=timeout) raises TimeoutExpired once the bound has elapsed
TimeoutReached(elapsed, timeout) == elapsed >= timeout

\* one second passes while communicate() waits
Tick ==
  /\ pc = "wait"
  /\ child.state = "running"
  /\ now - start_time < call.timeout
  /\ now' = now + 1
  /\ UNCHANGED << ext, http, queued, other, pc, call, outer, inner, exc, returned, files, child,
                  start_time, nextId, ncalls, nspawn, nwrite, history >>

\* the child ends by itself and communicate() returns its pipes and status:
\* result.output = stdout; result.error_output = stderr; result.return_code = process.returncode
Completes(rc, out, err) ==
  /\ pc = "wait"
  /\ child.state = "running"
  /\ now - start_time <= call.timeout
  /\ child' = [child EXCEPT !.state = "exited", !.rc = rc, !.out = out, !.err = err]
  /\ IF Decodable(out) /\ Decodable(err)
       THEN /\ inner' = [inner EXCEPT !.output = TranslateNewlines(out),
                                      !.error_output = TranslateNewlines(err),
                                      !.return_code = rc,
                                      !.execution_time = now - start_time]
            /\ exc' = exc
       ELSE /\ exc' = DecodeError
            /\ inner' = inner
  /\ pc' = "finally"
  /\ UNCHANGED << ext, http, queued, other, call, outer, returned, files, start_time, now, nextId,
                  ncalls, nspawn, nwrite, history >>

\* except subprocess.TimeoutExpired: process.kill(); ...
TimeoutExpiredRetry ==
  /\ pc = "wait"
  /\ child.state = "running"
  /\ TimeoutReached(now - start_time, call.timeout)
  /\ child' = [child EXCEPT !.state = "killed"]
  /\ inner' = [inner EXCEPT !.timeout_occurred = TRUE,
                            !.error_output = TimeoutMsg(call.timeout),
                            !.return_code = -1,
                            !.execution_time = now - start_time]
  /\ pc' = IF nspawn < 2 THEN "spawn" ELSE "finally"
  /\ UNCHANGED << ext, http, queued, other, call, outer, exc, returned, files, start_time, now, nextId,
                  ncalls, nspawn, nwrite, history >>

TimeoutExpired ==
  /\ pc = "wait"
  /\ child.state = "running"
  /\ TimeoutReached(now - start_time, call.timeout)
  /\ child' = [child EXCEPT !.state = "killed"]
  /\ inner' = [inner EXCEPT !.timeout_occurred = TRUE,
                            !.error_output = TimeoutMsg(call.timeout),
                            !.return_code = -1,
                            !.execution_time = now - start_time]
  /\ pc' = "finally"
  /\ UNCHANGED << ext, http, queued, other, call, outer, exc, returned, files, start_time, now, nextId,
                  ncalls, nspawn, nwrite, history >>

\* the scratch file deleted only when no exception is pending
FinallyOnlyOnSuccess ==
  /\ pc = "finally"
  /\ files' = IF exc = NoExc THEN {f \in files : f.name # temp_file(inner)} ELSE files
  /\ pc' = IF exc = NoExc THEN "save" ELSE "except"
  /\ UNCHANGED << ext, http, queued, other, call, outer, inner, exc, returned, child, start_time, now,
                  nextId, ncalls, nspawn, nwrite, history >>

\* finally: if temp_file.exists(): temp_file.unlink()
Finally ==
  /\ pc = "finally"
  /\ files' = {f \in files : f.name # temp_file(inner)}
  /\ pc' = IF exc = NoExc THEN "save" ELSE "except"
  /\ UNCHANGED << ext, http, queued, other, call, outer, inner, exc, returned, child, start_time, now,
                  nextId, ncalls, nspawn, nwrite, history >>

\* temp_file.unlink() raises: the exception leaves _execute_python_code
FinallyUnlinkFails ==
  /\ pc = "finally"
  /\ \E f \in files : f.name = temp_file(inner)
  /\ exc' = UnlinkError
  /\ pc' = "except"
  /\ UNCHANGED << ext, http, queued, other, call, outer, inner, returned, files, child, start_time, now,
                  nextId, ncalls, nspawn, nwrite, history >>

\* except Exception as e: ... return result.to_dict()
Except ==
  /\ pc = "except"
  /\ IF Catches(exc)
       THEN /\ outer' = ErrorResult(outer, exc)
            /\ returned' = to_dict(outer')
            /\ pc' = "done"
       ELSE /\ pc' = "raised"
            /\ UNCHANGED << ext, http, queued, other, outer, returned >>
  /\ UNCHANGED << ext, http, queued, other, call, inner, exc, files, child, start_time, now, nextId,
                  ncalls, nspawn, nwrite, history >>

\* the result execute_code holds when it reaches the save
FinalResult == IF call.execution_type = "python" THEN inner ELSE outer

\* the row _save_execution_history inserts
HistoryRow(code, execution_type, r) ==
  [ code_content |-> code, execution_type |-> execution_type,
    output |-> r.output, error_output |-> r.error_output,
    execution_time |-> r.execution_time ]

\* the INSERT executed twice
SaveTwice ==
  /\ pc = "save"
  /\ history' = Append(Append(history, HistoryRow(call.code, call.execution_type, FinalResult)),
                       HistoryRow(call.code, call.execution_type, FinalResult))
  /\ returned' = to_dict(FinalResult)
  /\ pc' = "done"
  /\ UNCHANGED << ext, http, queued, other, call, outer, inner, exc, files, child, start_time, now,
                  nextId, ncalls, nspawn, nwrite >>

\* self._save_execution_history(code, execution_type, result); return result.to_dict()
Save ==
  /\ pc = "save"
  /\ history' = Append(history, HistoryRow(call.code, call.execution_type, FinalResult))
  /\ returned' = to_dict(FinalResult)
  /\ pc' = "done"
  /\ UNCHANGED << ext, http, queued, other, call, outer, inner, exc, files, child, start_time, now,
                  nextId, ncalls, nspawn, nwrite >>

\* the INSERT raises and the exception leaves _save_execution_history
SaveFailsRaises ==
  /\ pc = "save"
  /\ exc' = [ type |-> "OSError", msg |-> <<"database is locked">> ]
  /\ pc' = "except"
  /\ UNCHANGED << ext, http, queued, other, call, outer, inner, returned, files, child, start_time,
                  now, nextId, ncalls, nspawn, nwrite, history >>

\* the INSERT raises: printed and swallowed inside _save_execution_history
SaveFails ==
  /\ pc = "save"
  /\ returned' = to_dict(FinalResult)
  /\ pc' = "done"
  /\ UNCHANGED << ext, http, queued, other, call, outer, inner, exc, files, child, start_time, now,
                  nextId, ncalls, nspawn, nwrite, history >>

Next ==
  \/ \E code \in Snippets, t \in ExecutionTypes, timeout \in Timeouts :
       ExecuteCode(code, t, timeout) /\ UNCHANGED << http, queued >>
  \/ ValidateDenied
  \/ ValidatePython
  \/ ValidateUnsupported
  \/ WriteScratch
  \/ WriteScratchPartial
  \/ WriteScratchFails
  \/ Spawn
  \/ SpawnFails
  \/ Tick
  \/ \E rc \in ExitCodes, out \in ChildStdouts, err \in ChildStderrs :
       Completes(rc, out, err)
  \/ TimeoutExpired
  \/ Finally
  \/ FinallyUnlinkFails
  \/ Except
  \/ Save
  \/ SaveFails

Spec == Init /\ [][Next]_vars

\* the steps execute_code takes by itself, clock included; the arrival of a
\* call and the end of a child are not among them
ParentStep ==
  \/ ValidateDenied \/ ValidatePython \/ ValidateUnsupported
  \/ WriteScratch \/ WriteScratchPartial \/ WriteScratchFails
  \/ Spawn \/ SpawnFails
  \/ Tick \/ TimeoutExpired
  \/ Finally \/ FinallyUnlinkFails
  \/ Except
  \/ Save \/ SaveFails

\* the host keeps running the parent and its clock; a child need not ever end.
\* Calls are drawn from one approved and one denied snippet.
LiveSnippets == { S_safe, Cat3(KwImport, <<" ">>, ModOs) }

LiveNext ==
  \/ \E code \in LiveSnippets, t \in ExecutionTypes, timeout \in Timeouts :
       ExecuteCode(code, t, timeout) /\ UNCHANGED << http, queued >>
  \/ \E rc \in ExitCodes, out \in ChildStdouts, err \in ChildStderrs :
       Completes(rc, out, err)
  \/ ParentStep

FairSpec == Init /\ [][LiveNext]_vars /\ WF_vars(ParentStep)

----------------------------------------------------------------------------
(* POST /api/execute, served by the event loop *)

\* a timeout validated with its upper limit forgotten
InRangeNoUpper(timeout) == timeout >= MinTimeout

\* Field(ge=1, le=60)
InRange(timeout) == timeout >= MinTimeout /\ timeout <= MaxAllowedTimeout

\* the timeouts clients send: some in range, one below it, one above it
HttpTimeouts == Timeouts \cup { MinTimeout - 1, MaxAllowedTimeout + 1 }

\* the event loop runs one handler at a time, and execute_code, once entered,
\* holds the loop until it returns: Popen and communicate are blocking calls
LoopFree == pc \in {"idle", "done"}

\* a client's request reaches the server
Arrive ==
  /\ queued < MaxQueued
  /\ queued' = queued + 1
  /\ UNCHANGED << ext, pc, call, outer, inner, exc, returned, files, child, start_time,
                  now, nextId, ncalls, nspawn, nwrite, history, http, other >>

\* the loop takes up a request: CodeExecutionRequest is validated (422 when it
\* fails), then the route awaits executor.execute_code(code, execution_type, timeout)
HttpExecute(code, execution_type, timeout) ==
  /\ queued > 0
  /\ LoopFree
  /\ queued' = queued - 1
  /\ IF InRange(timeout)
       THEN /\ http' = [ timeout |-> timeout, verdict |-> "accepted" ]
            /\ ExecuteCode(code, execution_type, timeout)
       ELSE /\ http' = [ timeout |-> timeout, verdict |-> "rejected" ]
            /\ UNCHANGED << ext, pc, call, outer, inner, exc, returned, files, child,
                            start_time, now, nextId, ncalls, nspawn, nwrite,
                            history, other >>

\* the status of the response to the request last taken up, 0 while there is none
HttpStatus ==
  IF http.verdict = "rejected" THEN 422
  ELSE IF http.verdict = "accepted" /\ pc = "done" THEN 200
  ELSE IF http.verdict = "accepted" /\ pc = "raised" THEN 500
  ELSE 0

ServeQueued ==
  \E code \in LiveSnippets, t \in ExecutionTypes, timeout \in HttpTimeouts :
    HttpExecute(code, t, timeout)

HttpNext ==
  \/ Arrive
  \/ ServeQueued
  \/ \E rc \in ExitCodes, out \in ChildStdouts, err \in ChildStderrs :
       Completes(rc, out, err)
  \/ ParentStep

HttpSpec == Init /\ [][HttpNext]_vars

----------------------------------------------------------------------------
(* get_execution_history *)

\* the state of the other components
notHistoryVars == << execVars, sessions, nextSid, sret, fs, table, aret, aclock,
                    pret, graph, cret >>

Min(a, b) == IF a <= b THEN a ELSE b

\* the answers SELECT ... ORDER BY created_at DESC LIMIT ? can give: that many
\* distinct rows of the table; created_at has a resolution of one second and
\* rows of the same second come in an order SQLite leaves open
Selections(limit) ==
  { s \in [1..Min(limit, Len(history)) -> DOMAIN history] :
      \A i, j \in DOMAIN s : i # j => s[i] # s[j] }

\* get_execution_history(limit): the rows read, the table untouched
GetExecutionHistory(limit) ==
  /\ \E s \in Selections(limit) :
       listed' = [i \in DOMAIN s |-> history[s[i]]]
  /\ UNCHANGED notHistoryVars

\* the SELECT raises: printed, and [] returned
GetExecutionHistoryFails ==
  /\ listed' = <<>>
  /\ UNCHANGED notHistoryVars

HistoryNext ==
  \/ \E code \in LiveSnippets, t \in ExecutionTypes, timeout \in Timeouts :
       ExecuteCode(code, t, timeout) /\ UNCHANGED << http, queued >>
  \/ \E rc \in ExitCodes, out \in ChildStdouts, err \in ChildStderrs :
       Completes(rc, out, err)
  \/ ParentStep
  \/ \E limit \in 1..MaxLimit : GetExecutionHistory(limit)
  \/ GetExecutionHistoryFails

HistorySpec == Init /\ [][HistoryNext]_vars

----------------------------------------------------------------------------
(* InteractiveCodeExecutor *)

\* the state of SecureCodeExecutor and of get_execution_history
notSessionVars == << execVars, listed, fs, table, aret, aclock, pret, graph, cret >>

\* the snippets handed to execute_in_session: two assignments and a raise
SessionCodes == { "x = 1", "_t = 1", "raise ValueError" }

\* session ids callers pass: issued ones, and one never issued
SessionIds == 1..(MaxSessions + 1)

\* name.startswith("_")
IsPrivate(name) == name = "_t"

\* the names exec(code, globals, locals) leaves in locals
LocalsAfter(locals, code) ==
  IF code = "x = 1" THEN locals \cup {"x"}
  ELSE IF code = "_t = 1" THEN locals \cup {"_t"}
  ELSE locals

\* create_session
CreateSession ==
  /\ nextSid <= MaxSessions
  /\ sessions' = [ i \in DOMAIN sessions \cup {nextSid} |->
                     IF i = nextSid THEN [ locals |-> {}, uses |-> 0 ]
                                    ELSE sessions[i] ]
  /\ nextSid' = nextSid + 1
  /\ sret' = [ NoSret EXCEPT !.op = "create_session", !.id = nextSid ]
  /\ UNCHANGED notSessionVars

\* execute_in_session(session_id, code)
ExecuteInSession(session_id, code) ==
  /\ IF session_id \notin DOMAIN sessions
       THEN /\ sret' = [ NoSret EXCEPT !.op = "execute_in_session", !.id = session_id,
                                       !.error = "Session not found" ]
            /\ UNCHANGED sessions
       ELSE /\ sessions[session_id].uses < MaxUses
            /\ sessions' = [ sessions EXCEPT
                               ![session_id].uses = @ + 1,
                               ![session_id].locals = LocalsAfter(@, code) ]
            /\ sret' = [ NoSret EXCEPT !.op = "execute_in_session", !.id = session_id,
                                       !.return_code =
                                          IF code = "raise ValueError" THEN 1 ELSE 0 ]
  /\ UNCHANGED << notSessionVars, nextSid >>

\* get_session_variables(session_id)
GetSessionVariables(session_id) ==
  /\ IF session_id \notin DOMAIN sessions
       THEN sret' = [ NoSret EXCEPT !.op = "get_session_variables", !.id = session_id,
                                    !.error = "Session not found" ]
       ELSE sret' = [ NoSret EXCEPT !.op = "get_session_variables", !.id = session_id,
                                    !.variables =
                                       { n \in sessions[session_id].locals : ~ IsPrivate(n) } ]
  /\ UNCHANGED << notSessionVars, sessions, nextSid >>

\* clear_session deleting every session
ClearSessionAll(session_id) ==
  /\ IF session_id \in DOMAIN sessions
       THEN /\ sessions' = << >>
            /\ sret' = [ NoSret EXCEPT !.op = "clear_session", !.id = session_id,
                                       !.message = "Session deleted" ]
       ELSE /\ sret' = [ NoSret EXCEPT !.op = "clear_session", !.id = session_id,
                                       !.error = "Session not found" ]
            /\ UNCHANGED sessions
  /\ UNCHANGED << notSessionVars, nextSid >>

\* clear_session(session_id)
ClearSession(session_id) ==
  /\ IF session_id \in DOMAIN sessions
       THEN /\ sessions' = [ i \in DOMAIN sessions \ {session_id} |-> sessions[i] ]
            /\ sret' = [ NoSret EXCEPT !.op = "clear_session", !.id = session_id,
                                       !.message = "Session deleted" ]
       ELSE /\ sret' = [ NoSret EXCEPT !.op = "clear_session", !.id = session_id,
                                       !.error = "Session not found" ]
            /\ UNCHANGED sessions
  /\ UNCHANGED << notSessionVars, nextSid >>

SessionNext ==
  \/ CreateSession
  \/ \E session_id \in SessionIds, code \in SessionCodes :
       ExecuteInSession(session_id, code)
  \/ \E session_id \in SessionIds : GetSessionVariables(session_id)
  \/ \E session_id \in SessionIds : ClearSession(session_id)

SessionSpec == Init /\ [][SessionNext]_vars

----------------------------------------------------------------------------
(* PythonCodeAnalyzer *)

\* the state of the other components
notAnalysisVars == << execVars, listed, sessions, nextSid, sret, pret, graph, cret >>

\* SELECT ... FROM code_analysis WHERE file_path = ?
RowsOf(rows, file_path) == SelectSeq(rows, LAMBDA r : r.file_path = file_path)

\* a sequence without its i-th entry
Without(s, i) == SubSeq(s, 1, i - 1) \o SubSeq(s, i + 1, Len(s))

\* ORDER BY line_start; rows of one line keep their insertion order
RECURSIVE OrderByLineStart(_)
OrderByLineStart(rows) ==
  IF rows = << >> THEN << >>
  ELSE LET i == CHOOSE i \in DOMAIN rows :
                  \A j \in DOMAIN rows :
                     \/ rows[i].line_start < rows[j].line_start
                     \/ rows[i].line_start = rows[j].line_start /\ i <= j
       IN << rows[i] >> \o OrderByLineStart(Without(rows, i))

\* _is_analysis_current: the newest row of the file is younger than the file
_is_analysis_current(file_path) ==
  LET rows == RowsOf(table, file_path)
  IN /\ rows # << >>
     /\ \E i \in DOMAIN rows :
          /\ \A j \in DOMAIN rows : rows[j].created_at <= rows[i].created_at
          /\ rows[i].created_at > fs[file_path].mtime

\* _get_cached_analysis
_get_cached_analysis(file_path, force_refresh) ==
  LET rows == OrderByLineStart(RowsOf(table, file_path))
      elements == [ i \in DOMAIN rows |-> RowToDict(rows[i]) ]
  IN [ file_path |-> file_path, force_refresh |-> force_refresh, kind |-> "cached",
       elements |-> elements, stats |-> _calculate_stats_from_elements(elements),
       error |-> "" ]

\* _save_analysis without its DELETE
_save_analysis_no_delete(file_path, elements) ==
  table \o [ i \in DOMAIN elements |-> ToRow(file_path, elements[i], aclock) ]

\* _save_analysis: DELETE the file's rows, INSERT one row per element, commit
_save_analysis(file_path, elements) ==
  SelectSeq(table, LAMBDA r : r.file_path # file_path)
    \o [ i \in DOMAIN elements |-> ToRow(file_path, elements[i], aclock) ]

\* the dictionary analyze_file returns from its except branch
AnalysisError(file_path, force_refresh, msg) ==
  [ NoAret EXCEPT !.file_path = file_path, !.force_refresh = force_refresh,
                  !.kind = "error", !.error = msg ]

\* the analysis is served from the cache
ServedFromCache(file_path, force_refresh) ==
  ~ force_refresh /\ _is_analysis_current(file_path)

\* analyze_file(file_path, force_refresh)
AnalyzeFile(file_path, force_refresh) ==
  /\ IF ~ fs[file_path].exists
       THEN /\ aret' = [ NoAret EXCEPT !.file_path = file_path,
                                       !.force_refresh = force_refresh,
                                       !.kind = "raised",
                                       !.error = "FileNotFoundError" ]
            /\ UNCHANGED table
     ELSE IF ServedFromCache(file_path, force_refresh)
       THEN /\ aret' = _get_cached_analysis(file_path, force_refresh)
            /\ UNCHANGED table
     ELSE IF ParseFails(fs[file_path].content)
       THEN /\ aret' = AnalysisError(file_path, force_refresh, "invalid syntax")
            /\ UNCHANGED table
     ELSE LET elements == Parse(fs[file_path].content)
          IN /\ table' = _save_analysis(file_path, elements)
             /\ aret' = [ file_path |-> file_path, force_refresh |-> force_refresh,
                          kind |-> "fresh",
                          elements |-> [ i \in DOMAIN elements |-> ElementToDict(elements[i]) ],
                          stats |-> _calculate_stats(elements),
                          error |-> "" ]
  /\ UNCHANGED << notAnalysisVars, fs, aclock >>

\* analyze_file when _save_analysis raises: the transaction is rolled back
AnalyzeFileSaveFails(file_path, force_refresh) ==
  /\ fs[file_path].exists
  /\ ~ ServedFromCache(file_path, force_refresh)
  /\ ~ ParseFails(fs[file_path].content)
  /\ aret' = AnalysisError(file_path, force_refresh, "database is locked")
  /\ UNCHANGED << notAnalysisVars, fs, table, aclock >>

\* the file is written by its author
WriteFile(file_path, content) ==
  /\ fs[file_path] # [ exists |-> TRUE, content |-> content, mtime |-> aclock ]
  /\ fs' = [ fs EXCEPT ![file_path] =
               [ exists |-> TRUE, content |-> content, mtime |-> aclock ] ]
  /\ UNCHANGED << notAnalysisVars, table, aret, aclock >>

\* one second passes
AdvanceClock ==
  /\ aclock < MaxClock
  /\ aclock' = aclock + 1
  /\ UNCHANGED << notAnalysisVars, fs, table, aret >>

AnalysisNext ==
  \/ \E file_path \in AnalysisPaths, force_refresh \in BOOLEAN :
       AnalyzeFile(file_path, force_refresh)
  \/ \E file_path \in AnalysisPaths, force_refresh \in BOOLEAN :
       AnalyzeFileSaveFails(file_path, force_refresh)
  \/ \E file_path \in AnalysisPaths, content \in Sources :
       WriteFile(file_path, content)
  \/ AdvanceClock

AnalysisSpec == Init /\ [][AnalysisNext]_vars

----------------------------------------------------------------------------
(* DocsPortApp._safe_path *)

notPathVars == << execVars, listed, sessions, nextSid, sret, fs, table, aret, aclock,
                 graph, cret >>

\* str(path): "/" before every component, "/" alone for the file-system root
RECURSIVE PathStr(_)
PathStr(p) ==
  IF p = << >> THEN <<"/">>
  ELSE IF Len(p) = 1 THEN <<"/">> \o p[1]
  ELSE PathStr(SubSeq(p, 1, Len(p) - 1)) \o <<"/">> \o p[Len(p)]

\* project_root / file_path: an absolute file_path replaces the root
Join(root, file_path) ==
  IF file_path.absolute THEN file_path.segs ELSE root \o file_path.segs

\* Path.resolve() on a tree without symbolic links: ".." drops the component
\* before it, and stays at the file-system root
RECURSIVE Resolve(_, _)
Resolve(done, rest) ==
  IF rest = << >> THEN done
  ELSE IF Head(rest) = DotDot
    THEN Resolve(IF done = << >> THEN done ELSE SubSeq(done, 1, Len(done) - 1), Tail(rest))
  ELSE Resolve(Append(done, Head(rest)), Tail(rest))

\* if not str(resolved).startswith(str(project_root)): raise HTTPException(403)
InsideByPrefix(resolved) == StartsWith(PathStr(resolved), PathStr(project_root))

\* _safe_path(file_path)
_safe_path(file_path) ==
  LET resolved == Resolve(<< >>, Join(project_root, file_path))
  IN IF ~ InsideByPrefix(resolved)
       THEN [ file_path |-> file_path, kind |-> "403", resolved |-> << >> ]
       ELSE [ file_path |-> file_path, kind |-> "returned", resolved |-> resolved ]

\* the paths clients request
RequestedPaths ==
  { [ absolute |-> a, segs |-> s ] :
      a \in BOOLEAN, s \in UNION { [1..n -> Segments] : n \in 0..MaxSegs } }

\* a route calls self._safe_path(file_path)
SafePath(file_path) ==
  /\ pret' = _safe_path(file_path)
  /\ UNCHANGED notPathVars

PathNext == \E file_path \in RequestedPaths : SafePath(file_path)

PathSpec == Init /\ [][PathNext]_vars

----------------------------------------------------------------------------
(* CodeDependencyAnalyzer._find_cycles *)

notCycleVars == << execVars, listed, sessions, nextSid, sret, fs, table, aret, aclock,
                  pret >>

\* a set of nodes as a list, in ascending order
RECURSIVE SetToSeq(_)
SetToSeq(S) ==
  IF S = {} THEN << >>
  ELSE LET m == CHOOSE m \in S : \A n \in S : m <= n
       IN << m >> \o SetToSeq(S \ {m})

\* the graphs _build_dependency_graph can hand over: every node a key, its
\* dependencies listed in ascending order
Graphs == [ Nodes -> { SetToSeq(S) : S \in SUBSET Nodes } ]

\* path.index(node) returning the last position
PathLastIndex(path, node) ==
  CHOOSE i \in DOMAIN path : path[i] = node /\ \A j \in DOMAIN path : path[j] = node => j <= i

\* path.index(node): the first position
PathIndex(path, node) ==
  CHOOSE i \in DOMAIN path : path[i] = node /\ \A j \in DOMAIN path : path[j] = node => i <= j

\* dfs(node, path), threading cycles, visited and rec_stack; dfs_neighbors is
\* its loop  for neighbor in graph.get(node, [])  from the i-th neighbour on
RECURSIVE dfs(_, _, _, _), dfs_neighbors(_, _, _, _, _)
dfs(g, node, path, st) ==
  IF node \in st.rec_stack
    THEN [ st EXCEPT !.cycles = Append(@, SubSeq(path, PathIndex(path, node), Len(path))) ]
  ELSE IF node \in st.visited
    THEN st
  ELSE LET entered == [ st EXCEPT !.visited = @ \cup {node}, !.rec_stack = @ \cup {node} ]
           after == dfs_neighbors(g, node, path, 1, entered)
       IN [ after EXCEPT !.rec_stack = @ \ {node} ]

dfs_neighbors(g, node, path, i, st) ==
  IF i > Len(g[node]) THEN st
  ELSE dfs_neighbors(g, node, path, i + 1,
                     dfs(g, g[node][i], Append(path, g[node][i]), st))

\* for node in graph: if node not in visited: dfs(node, [node])
RECURSIVE dfs_roots(_, _, _)
dfs_roots(g, node, st) ==
  IF node > MaxNodes THEN st
  ELSE dfs_roots(g, node + 1,
                 IF node \in st.visited THEN st ELSE dfs(g, node, << node >>, st))

\* _find_cycles(graph)
_find_cycles(g) ==
  dfs_roots(g, 1, [ cycles |-> << >>, visited |-> {}, rec_stack |-> {} ]).cycles

\* _build_dependency_graph hands over a graph
BuildGraph(g) ==
  /\ graph = NoGraph
  /\ ~ cret.done
  /\ graph' = g
  /\ cret' = NoCret
  /\ UNCHANGED notCycleVars

\* cycles = self._find_cycles(dependency_graph)
FindCycles ==
  /\ ~ cret.done
  /\ cret' = [ done |-> TRUE, cycles |-> _find_cycles(graph) ]
  /\ UNCHANGED << notCycleVars, graph >>

CycleNext ==
  \/ /\ graph = NoGraph
     /\ \E g \in Graphs : BuildGraph(g)
  \/ FindCycles

CycleSpec == Init /\ [][CycleNext]_vars

----------------------------------------------------------------------------
(* Another executor (another process or thread) using the same scratch
   directory: the file steps of its _execute_python_code *)

\* the snippet the other executor runs, approved by its guard
OtherSnippet == S_breakpoint

\* its CodeExecutionResult, as far as the file name needs it
OtherResult(id) == NewResult(id, 0)

\* with open(temp_file, 'w', encoding='utf-8') as f: f.write(code)
OtherWrite ==
  /\ other.pc = "idle"
  /\ other.calls < MaxOtherCalls
  /\ other' = [ pc |-> "written", id |-> nextId, ran |-> <<>>, calls |-> other.calls + 1 ]
  /\ nextId' = nextId + 1
  /\ files' = {f \in files : f.name # temp_file(OtherResult(nextId))}
                \cup { [name |-> temp_file(OtherResult(nextId)), content |-> OtherSnippet] }
  /\ UNCHANGED << ext, pc, call, outer, inner, exc, returned, child, start_time, now,
                  ncalls, nspawn, nwrite, history, http, queued >>

\* subprocess.Popen([sys.executable, str(temp_file)], ...): its child reads the file
OtherSpawn ==
  /\ other.pc = "written"
  /\ other' = [ other EXCEPT
                  !.pc = "running",
                  !.ran = IF \E f \in files : f.name = temp_file(OtherResult(other.id))
                            THEN (CHOOSE f \in files :
                                    f.name = temp_file(OtherResult(other.id))).content
                            ELSE <<>> ]
  /\ UNCHANGED << ext, pc, call, outer, inner, exc, returned, files, child, start_time,
                  now, nextId, ncalls, nspawn, nwrite, history, http, queued >>

\* finally: if temp_file.exists(): temp_file.unlink()
OtherUnlink ==
  /\ other.pc \in {"written", "running"}
  /\ files' = {f \in files : f.name # temp_file(OtherResult(other.id))}
  /\ other' = [ other EXCEPT !.pc = "idle", !.id = 0, !.ran = <<>> ]
  /\ UNCHANGED << ext, pc, call, outer, inner, exc, returned, child, start_time, now,
                  nextId, ncalls, nspawn, nwrite, history, http, queued >>

SharedDirNext ==
  \/ \E code \in LiveSnippets, t \in ExecutionTypes, timeout \in Timeouts :
       ExecuteCode(code, t, timeout) /\ UNCHANGED << http, queued >>
  \/ \E rc \in ExitCodes, out \in ChildStdouts, err \in ChildStderrs :
       Completes(rc, out, err)
  \/ ParentStep
  \/ OtherWrite
  \/ OtherSpawn
  \/ OtherUnlink

SharedDirSpec == Init /\ [][SharedDirNext]_vars

----------------------------------------------------------------------------
(* Properties of execute_code *)

\* the call has returned through the guard's denial branch
GuardDenied ==
  /\ pc = "done"
  /\ nwrite = 0
  /\ returned.error_output = ForbiddenMsg

\* the guard has been evaluated for the current call
PastGuard == pc \notin {"idle", "validate"}

\* C1: execute_code never raises; when the spawn fails or any other exception
\* occurs during the run, the returned dictionary has a non-zero return_code,
\* success false and the exception's message as error_output.
C1_NeverRaises ==
  /\ pc # "raised"
  /\ pc = "done" => returned.execution_id # 0
  /\ (pc = "done" /\ exc # NoExc) =>
        /\ returned.return_code # 0
        /\ returned.success = FALSE
        /\ returned.error_output = exc.msg

\* a call whose child could not be spawned has returned an error result
C1_Witness == pc = "done" /\ exc = SpawnError /\ nspawn = 0 /\ nwrite = 1

\* C2: a denied snippet spawns no process and creates no scratch file, and its
\* result is fixed but for identifier and timestamp: success false,
\* return_code 1, error_output 'Code contains forbidden operations'.
C2_DenialFixed ==
  (pc = "done" /\ ~ _validate_code(call.code)) =>
     /\ nspawn = 0
     /\ nwrite = 0
     /\ child = NoChild
     /\ \A f \in files : f.name \notin {outer.execution_id, inner.execution_id}
     /\ returned = [ NoDict EXCEPT !.execution_id = outer.execution_id,
                                   !.timestamp = outer.timestamp,
                                   !.error_output = ForbiddenMsg,
                                   !.return_code = 1,
                                   !.success = FALSE ]

\* an upper-case eval( call has been denied
C2_Witness == pc = "done" /\ call.code = S_eval_upper /\ returned.return_code = 1

\* C3 as claimed: when the child is killed at the timeout bound, the returned
\* result has timeout_occurred true, success false, return_code -1 and an
\* error_output naming the bound.
C3_TimeoutResult ==
  (pc = "done" /\ child.state = "killed") =>
     /\ returned.timeout_occurred = TRUE
     /\ returned.success = FALSE
     /\ returned.return_code = -1
     /\ returned.error_output = TimeoutMsg(call.timeout)

\* C4: in every returned dictionary success = (return_code = 0 and not
\* timeout_occurred); success is never true together with timeout_occurred.
C4_SuccessDerived ==
  pc = "done" =>
     /\ returned.success = (returned.return_code = 0 /\ ~ returned.timeout_occurred)
     /\ ~ (returned.success /\ returned.timeout_occurred)

\* a call has returned a failed result whose child ended by itself
C4_Witness ==
  pc = "done" /\ child.state = "exited" /\ returned.return_code = 1 /\ ~ returned.success

\* C5 as claimed: when the child of an allowed snippet ends within the bound,
\* success holds iff its exit status is 0, and output and error_output are
\* exactly what it wrote to stdout and stderr.
C5_VerbatimOutput ==
  (pc = "done" /\ child.state = "exited") =>
     /\ returned.success = (child.rc = 0)
     /\ returned.output = child.out
     /\ returned.error_output = child.err

\* C6: every call eventually returns, even if its child never ends by itself:
\* the wait lasts at most the timeout bound and a killed child is not waited on.
C6_AlwaysReturns ==
  /\ (pc = "validate") ~> (pc = "done")
  /\ [](pc = "wait" => now - start_time <= call.timeout)
  /\ [](child.state = "killed" => pc # "wait")

\* a call whose child was killed at the bound has returned
C6_Witness == pc = "done" /\ child.state = "killed" /\ returned.timeout_occurred

----------------------------------------------------------------------------
(* What the guard is said to deny *)

IsWs(c) == c \in {" ", "\t"}

IsWordChar(c) ==
  \/ c = "_"
  \/ \E i \in 1..Len(LowerChars) : LowerChars[i] = c \/ UpperChars[i] = c
  \/ \E i \in 1..Len(Digits) : Digits[i] = c

\* the modules the denylist names in its "import <module>" entries
DeniedModules ==
  { SubSeq(dangerous_operations[k], Len(KwImport) + 2, Len(dangerous_operations[k])) :
      k \in { j \in 1..Len(dangerous_operations) :
                StartsWith(dangerous_operations[j], KwImport \o <<" ">>) } }

\* s holds word m at position j, ending on a word boundary
WordAt(s, j, m) ==
  /\ j + Len(m) - 1 <= Len(s)
  /\ SubSeq(s, j, j + Len(m) - 1) = m
  /\ (j + Len(m) <= Len(s) => ~ IsWordChar(s[j + Len(m)]))

\* code holds "import", one or more spaces or tabs, and the word m
ImportsModule(code, m) ==
  LET s == Lower(code)
  IN  \E i \in 1..Len(s), j \in 1..Len(s) :
        /\ i + Len(KwImport) < j
        /\ SubSeq(s, i, i + Len(KwImport) - 1) = KwImport
        /\ \A k \in (i + Len(KwImport))..(j - 1) : IsWs(s[k])
        /\ WordAt(s, j, m)

\* C7 as claimed: a snippet importing a denylisted module is denied whatever
\* the run of spaces or tabs after 'import', and no process or scratch file
\* is made for it.
C7_ImportAnySpacing ==
  (PastGuard /\ \E m \in DeniedModules : ImportsModule(call.code, m)) =>
     /\ GuardDenied
     /\ returned.success = FALSE
     /\ nspawn = 0

Dunder(name) == <<"_", "_">> \o name \o <<"_", "_">>

EscapeAttributes ==
  { Dunder(<<"b","u","i","l","t","i","n","s">>),
    Dunder(<<"c","l","a","s","s">>),
    Dunder(<<"s","u","b","c","l","a","s","s","e","s">>) }

\* C8 as claimed: a snippet holding __builtins__, __class__ or __subclasses__
\* is denied by the guard and returns success false.
C8_DunderDenied ==
  (PastGuard /\ \E a \in EscapeAttributes : Contains(a, Lower(call.code))) =>
     /\ GuardDenied
     /\ returned.success = FALSE

CallTokens ==
  { <<"e","x","e","c","(">>, <<"e","v","a","l","(">>, <<"c","o","m","p","i","l","e","(">>,
    <<"_","_","i","m","p","o","r","t","_","_","(">>, <<"o","p","e","n","(">>,
    <<"i","n","p","u","t","(">>, <<"e","x","i","t","(">>,
    <<"g","l","o","b","a","l","s","(">>, <<"l","o","c","a","l","s","(">>,
    <<"g","e","t","a","t","t","r","(">>, <<"s","e","t","a","t","t","r","(">>,
    <<"d","e","l","a","t","t","r","(">>, <<"h","a","s","a","t","t","r","(">>,
    <<"b","r","e","a","k","p","o","i","n","t","(">> }

\* C9 as claimed: a snippet holding, in any letter case, one of the call-like
\* tokens exec( ... hasattr( or breakpoint( is denied and returns success false.
C9_CallTokensDenied ==
  (PastGuard /\ \E t \in CallTokens : Contains(t, Lower(call.code))) =>
     /\ GuardDenied
     /\ returned.success = FALSE

\* code is "import", whitespace and one word that only starts with a denied
\* module's name
ImportsLookalike(code) ==
  \E j \in 1..Len(code) :
    /\ StartsWith(code, KwImport)
    /\ Len(KwImport) < j - 1
    /\ \A k \in (Len(KwImport) + 1)..(j - 1) : IsWs(code[k])
    /\ \A k \in j..Len(code) : IsWordChar(code[k])
    /\ SubSeq(code, j, Len(code)) \notin DeniedModules
    /\ \E d \in DeniedModules : StartsWith(SubSeq(code, j, Len(code)), d)

\* C10 as claimed: imports match on word boundaries: 'import osprey' passes
\* the guard while 'import os' is denied.
C10_WordBoundary ==
  /\ (PastGuard /\ ImportsLookalike(call.code)) => ~ GuardDenied
  /\ (PastGuard /\ call.code = Cat3(KwImport, <<" ">>, ModOs)) => GuardDenied

\* C12: while one request's child process runs, the task serving it yields
\* control, so a request waiting on the event loop can be taken up before the
\* first child finishes or times out.
C12_OthersProgress ==
  (pc = "wait" /\ child.state = "running" /\ queued > 0) => ENABLED ServeQueued

\* C13: every call to execute_code returns only through the history append, on
\* every branch: guard denial, completed run, timed-out run and spawn failure.
C13_AlwaysRecorded ==
  [][(pc # "done" /\ pc' = "done") => pc = "save"]_vars

\* the child has completed with readable pipes, or was killed on timeout
ChildResultComputed ==
  \/ child.state = "killed"
  \/ child.state = "exited" /\ Decodable(child.out) /\ Decodable(child.err)

\* C14: if deleting the scratch file fails after the child has completed or
\* timed out, execute_code still returns the result computed from the child.
C14_UnlinkFailureSwallowed ==
  (pc = "done" /\ exc = UnlinkError /\ ChildResultComputed)
    => returned = to_dict(inner)

\* C15: when execute_code returns after the scratch file was written, on every
\* exit path, the scratch file of that request no longer exists, provided the
\* deletion itself succeeds.
C15_ScratchFileGone ==
  (pc = "done" /\ nwrite >= 1 /\ exc # UnlinkError)
    => ~ \E f \in files : f.name = temp_file(inner)

C15_Witness ==
  /\ pc = "done"
  /\ nwrite = 1
  /\ exc = WriteError
  /\ files = {}

\* C16: if writing the history record fails, execute_code raises nothing and
\* returns exactly the result it would have returned had the write succeeded.
C16_SaveFailureInvisible ==
  [][(pc = "save" /\ history' = history)
       => (pc' = "done" /\ returned' = to_dict(FinalResult))]_vars

C16_Witness ==
  /\ pc = "done"
  /\ exc = NoExc
  /\ nspawn = 1
  /\ history = <<>>
  /\ returned = to_dict(inner)

\* C17: within one call a child process is spawned at most once, and only
\* after the guard has evaluated that call's snippet and allowed it.
C17_SpawnOnceAfterGuard ==
  [][(nspawn' > nspawn \/ (child.state = "none" /\ child'.state # "none"))
       => /\ nspawn = 0
          /\ nspawn' = 1
          /\ PastGuard
          /\ _validate_code(call.code)]_vars

C17_Witness ==
  /\ pc = "done"
  /\ nspawn = 1
  /\ child.state = "killed"
  /\ _validate_code(call.code)

\* the other executor's scratch file, as it wrote it
OtherFile == [ name |-> temp_file(OtherResult(other.id)), content |-> OtherSnippet ]

\* C18: for any interleaving of calls sharing the scratch directory, each
\* call's scratch file name is distinct, so no call overwrites, executes or
\* deletes the scratch file of another call.
C18_NoCollision ==
  /\ (other.pc # "idle" /\ pc \notin {"idle", "validate", "done"})
       => temp_file(inner) # temp_file(OtherResult(other.id))
  /\ other.pc \in {"written", "running"} => OtherFile \in files
  /\ other.pc = "running" => other.ran = OtherSnippet
  /\ pc \in {"spawn", "wait"}
       => /\ [ name |-> temp_file(inner), content |-> call.code ] \in files
          /\ (child.state # "none" => child.script = temp_file(inner))

C18_Witness ==
  /\ pc = "wait"
  /\ other.pc = "running"
  /\ other.ran = OtherSnippet
  /\ Cardinality(files) = 2

\* C19: a result has return_code -1 if and only if timeout_occurred is true.
C19_SentinelDistinct ==
  pc = "done" => (returned.return_code = -1 <=> returned.timeout_occurred)

\* C20: a request to the execute endpoint whose timeout lies outside [1, 60]
\* is answered 422 and never reaches the executor: no guard evaluation, no
\* spawn and no history record happen for it.
C20_OutOfRangeRejected ==
  [][(queued' < queued /\ (http'.timeout < 1 \/ http'.timeout > 60))
       => /\ HttpStatus' = 422
          /\ UNCHANGED << ext, pc, call, outer, inner, exc, returned, files, child,
                          start_time, now, nextId, ncalls, nspawn, nwrite,
                          history >>]_vars

C20_Witness ==
  /\ HttpStatus = 422
  /\ http.timeout = 61
  /\ ncalls = 0
  /\ nspawn = 0
  /\ history = <<>>

\* C21: in every returned result execution_time is >= 0 and populated: 0 for
\* a guard rejection, and end minus start, taken around the child's run, for
\* a run that completed or timed out.
C21_ExecutionTime ==
  pc = "done" =>
    /\ returned.execution_time >= 0
    /\ (GuardDenied => returned.execution_time = 0)
    /\ (child.state \in {"exited", "killed"}
          => returned.execution_time = now - start_time)

\* the current call has a guard-approved snippet and a type other than python
UnsupportedCall ==
  /\ call.execution_type # "python"
  /\ _validate_code(call.code)

\* C27 as claimed: for a guard-approved snippet with a type other than
\* 'python', nothing is spawned or written, the result has return_code 1,
\* success false and an error_output naming the type, and the history ends
\* with a record of the call.
C27_AlwaysAppended ==
  (pc = "done" /\ UnsupportedCall) =>
     /\ nspawn = 0
     /\ nwrite = 0
     /\ child = NoChild
     /\ returned.return_code = 1
     /\ returned.success = FALSE
     /\ returned.error_output = UnsupportedMsg(call.execution_type)
     /\ Len(history) >= 1
     /\ history[Len(history)] = HistoryRow(call.code, call.execution_type, outer)

\* C27: for a guard-approved snippet with a type other than 'python', nothing
\* is spawned or written, the result has return_code 1, success false and an
\* error_output naming the type, and the call returns through the history
\* append: a record of the call is appended unless the write itself fails.
C27_UnsupportedType ==
  [][(pc # "done" /\ pc' = "done" /\ UnsupportedCall) =>
       /\ pc = "save"
       /\ nspawn' = 0
       /\ nwrite' = 0
       /\ child' = NoChild
       /\ files' = files
       /\ returned'.return_code = 1
       /\ returned'.success = FALSE
       /\ returned'.error_output = UnsupportedMsg(call.execution_type)
       /\ history' \in { history,
                         Append(history,
                                HistoryRow(call.code, call.execution_type, outer)) }]_vars

C27_Witness ==
  /\ pc = "done"
  /\ call.execution_type = "bash"
  /\ returned.error_output = UnsupportedMsg("bash")
  /\ returned.return_code = 1
  /\ nspawn = 0
  /\ Len(history) = 1

\* C28: when the timeout fires, the returned output is empty and error_output
\* holds only the timeout message; nothing the child wrote before being
\* killed is returned or recorded in the history.
C28_TimeoutDropsOutput ==
  (pc = "done" /\ child.state = "killed") =>
     /\ returned.output = <<>>
     /\ returned.error_output = TimeoutMsg(call.timeout)
     /\ \A i \in DOMAIN history :
          history[i].code_content = call.code
            => /\ history[i].output = <<>>
               /\ history[i].error_output = TimeoutMsg(call.timeout)

C29_SessionTable ==
  [][/\ (sret'.op \in {"execute_in_session", "get_session_variables", "clear_session"}
           /\ sret'.id \notin DOMAIN sessions)
          => (sret'.error = "Session not found" /\ sessions' = sessions)
     /\ (sret'.op = "clear_session" /\ sret'.id \in DOMAIN sessions)
          => /\ DOMAIN sessions' = DOMAIN sessions \ {sret'.id}
             /\ \A i \in DOMAIN sessions' : sessions'[i] = sessions[i]
             /\ sret'.error = ""
     /\ \A i \in DOMAIN sessions' \ DOMAIN sessions :
          /\ sret'.op = "create_session"
          /\ i >= nextSid
          /\ i < nextSid'
     /\ sret'.op # "clear_session" => DOMAIN sessions \subseteq DOMAIN sessions']_vars

C29_Witness ==
  /\ sret.op = "execute_in_session"
  /\ sret.id = 1
  /\ sret.error = "Session not found"
  /\ nextSid = 3
  /\ DOMAIN sessions = {2}

\* C23: analyze_file on a path that does not exist does not raise: it returns
\* a dictionary with an 'error' entry or an empty element list, and stores
\* nothing in the analysis table.
C23_MissingFileNoRaise ==
  (aret.kind # "none" /\ ~ fs[aret.file_path].exists) =>
     /\ aret.kind # "raised"
     /\ (aret.error # "" \/ aret.elements = << >>)
     /\ RowsOf(table, aret.file_path) = << >>

\* the step is a call of analyze_file
AnalyzeStep == fs' = fs /\ aclock' = aclock /\ (aret' # aret \/ table' # table)

\* what a reader of the dictionary gets for (name, type, line range, parent),
\* a missing 'parent' key read as None
ElementView(d) ==
  [ name |-> d.name, type |-> d.type, line_start |-> d.line_start,
    line_end |-> d.line_end,
    parent |-> IF d.parent = Absent THEN None ELSE d.parent ]

\* C26: for a file unchanged since its last analysis, analyze_file served from
\* the cache returns the same elements (name, type, line range and parent) and
\* the same stats as the fresh analysis that populated the cache; with
\* force_refresh true the file is re-parsed and its stored rows replaced.
C26_CacheEquivalence ==
  [][AnalyzeStep =>
       LET p == aret'.file_path
           fresh == Parse(fs[p].content)
       IN /\ aret'.kind = "cached" =>
               /\ [ i \in DOMAIN aret'.elements |-> ElementView(aret'.elements[i]) ]
                    = [ i \in DOMAIN fresh |-> ElementView(ElementToDict(fresh[i])) ]
               /\ aret'.stats = _calculate_stats(fresh)
          /\ aret'.force_refresh =>
               /\ aret'.kind # "cached"
               /\ aret'.kind = "fresh" =>
                    RowsOf(table', p) = [ i \in DOMAIN fresh |-> ToRow(p, fresh[i], aclock) ]]_vars

\* C30: _save_analysis replaces rather than accumulates: a stored analysis
\* leaves the table holding, for that file, exactly its elements, and leaves
\* the rows of every other file unchanged.
C30_SaveReplaces ==
  [][table' # table =>
       LET p == aret'.file_path
           rows == RowsOf(table', p)
       IN /\ aret'.kind = "fresh"
          /\ Len(rows) = Len(aret'.elements)
          /\ \A i \in DOMAIN rows :
               /\ ElementView(RowToDict(rows[i]))
                    = [ ElementView(aret'.elements[i]) EXCEPT !.parent = None ]
               /\ rows[i].created_at = aclock
          /\ \A q \in AnalysisPaths \ {p} : RowsOf(table', q) = RowsOf(table, q)]_vars

C30_Witness ==
  /\ aret.kind = "fresh"
  /\ aret.file_path = "a.py"
  /\ fs["a.py"].content = "def f"
  /\ fs["a.py"].mtime = 1
  /\ Len(RowsOf(table, "a.py")) = 1
  /\ RowsOf(table, "a.py")[1].created_at = 2
  /\ Len(RowsOf(table, "b.py")) = 2
  /\ RowsOf(table, "b.py")[1].created_at = 0

\* the path is the project root or lies below it
IsRootOrDescendant(p) ==
  /\ Len(p) >= Len(project_root)
  /\ \A i \in 1..Len(project_root) : p[i] = project_root[i]

\* C24: for every requested path, _safe_path either returns a resolved path
\* that is the project root or a descendant of it, or raises HTTP 403; it
\* never returns a path outside the project root directory.
C24_StaysInside ==
  /\ pret.kind \in {"none", "returned", "403"}
  /\ pret.kind = "returned" => IsRootOrDescendant(pret.resolved)

\* the nodes an edge of g leads to from n
Successors(g, n) == { g[n][i] : i \in DOMAIN g[n] }

\* the nodes reached from the set S by at most k further edges
RECURSIVE Closure(_, _, _)
Closure(g, S, k) ==
  IF k = 0 THEN S
  ELSE Closure(g, S \cup UNION { Successors(g, n) : n \in S }, k - 1)

\* g has a directed cycle: some node is reached from itself by one edge or more
HasCycle(g) == \E n \in Nodes : n \in Closure(g, Successors(g, n), MaxNodes)

\* c is a closed path of g
ClosedPath(g, c) ==
  /\ Len(c) >= 2
  /\ c[1] = c[Len(c)]
  /\ \A i \in 1..(Len(c) - 1) : c[i + 1] \in Successors(g, c[i])

\* C25: _find_cycles terminates on every finite dependency graph, returns at
\* least one cycle if and only if the graph has a directed cycle (self-loops
\* included), and every list it returns is a closed path of the graph.
C25_FindCycles ==
  cret.done =>
     /\ (cret.cycles # << >>) <=> HasCycle(graph)
     /\ \A k \in DOMAIN cret.cycles : ClosedPath(graph, cret.cycles[k])

C25_Witness ==
  /\ cret.done
  /\ \E k \in DOMAIN cret.cycles : cret.cycles[k] = << 1, 1 >>
  /\ \E k \in DOMAIN cret.cycles : Len(cret.cycles[k]) = 4

====
